---- MODULE Spec2Model ----
(***************************************************************************)
(* VR Foraging primary-data NWB packaging: one run of run_capsule.py       *)
(* (__main__) over one session, with the helpers of utils.py it calls.     *)
(*                                                                         *)
(* A session (nwb.acquisition) maps stream keys to streams.  A stream is a *)
(* record [description, n, rows]: rows are the rows of its table (a row is *)
(* a function from column names to cells), n is its number of samples.     *)
(* The sampled treadmill and analog streams carry only their sample count  *)
(* (rows = <<>>); cells are written as Python prints them ("True", "2").   *)
(***************************************************************************)
EXTENDS Integers, Sequences, FiniteSets, TLC

VARIABLES raw_nwb_path, acquisition, source_io, io, pc, error,
          items, i, software_event_keys, j,
          event_table_dict, meanings_table_dict,
          processing_module, data_process, written, call

vars == <<raw_nwb_path, acquisition, source_io, io, pc, error,
          items, i, software_event_keys, j,
          event_table_dict, meanings_table_dict,
          processing_module, data_process, written, call>>

(***************************************************************************)
(* Bounds of the sessions that are enumerated.                             *)
(***************************************************************************)
MaxRows == 2

MaxTime == 2

MaxExtra == 1

MaxLen == 3

(***************************************************************************)
(* utils.py: the device register catalog and the tag table.                *)
(***************************************************************************)
Entry(device, registers, name, description, is_event) ==
    [device |-> device, registers |-> registers, name |-> name,
     description |-> description, is_event |-> is_event]

VR_FORAGING_MAPPING ==
    << Entry("Behavior.HarpBehavior.PwmStart", <<"PwmDO2">>,
             "sound", "Sound delivered from hardware", TRUE),
       Entry("Behavior.HarpBehavior.PwmStop", <<"PwmDO2">>,
             "sound_offset", "Hardware sound offset", TRUE),
       Entry("Behavior.HarpBehavior.PulseSupplyPort0", <<"PulseSupplyPort0">>,
             "water", "Water delivered from hardware", TRUE),
       Entry("Behavior.HarpOlfactometer.OdorValveState",
             <<"Valve0", "Valve1", "Valve2">>,
             "odor_line_load",
             "Loading of odor to line. Doesn't mean odor is presented to the mouse but needs to happen before EndValve triggerand defines what odor is being presented.",
             TRUE),
       Entry("Behavior.HarpOlfactometer.EndValveState", <<"EndValve0">>,
             "Odor", "Odor Delivery", TRUE),
       Entry("Behavior.HarpLickometer.LickState", <<"Channel0">>,
             "Lick", "Lick", TRUE),
       Entry("Behavior.HarpBehavior.DigitalInputState", <<"DIPort0">>,
             "Photodiode", "Screen synchronization photodiode", FALSE),
       Entry("Behavior.HarpOlfactometer.Channel0ActualFlow",
             <<"Channel0ActualFlow">>,
             "Channel0ActualFlow", "Measure flow in channel 0", FALSE),
       Entry("Behavior.HarpOlfactometer.Channel1ActualFlow",
             <<"Channel1ActualFlow">>,
             "Channel1ActualFlow", "Measure flow in channel 1", FALSE),
       Entry("Behavior.HarpOlfactometer.Channel2ActualFlow",
             <<"Channel2ActualFlow">>,
             "Channel2ActualFlow", "Measure flow in channel 2", FALSE),
       Entry("Behavior.HarpOlfactometer.Channel3ActualFlow",
             <<"Channel3ActualFlow">>,
             "Channel3ActualFlow", "Measure flow in channel 3", FALSE),
       Entry("Behavior.HarpOlfactometer.Channel4ActualFlow",
             <<"Channel4ActualFlow">>,
             "Channel4ActualFlow", "Measure flow in channel 4", FALSE),
       Entry("Behavior.HarpSniffDetector.RawVoltage", <<"RawVoltage">>,
             "Breathing", "Breathing signal", FALSE),
       Entry("Behavior.HarpStepperDriver.AccumulatedSteps",
             <<"Motor0, Motor1, Motor2, Motor3">>,
             "MotorPositions",
             "The position of x, y1, y2, and z  of the lickspout and oder tube",
             FALSE),
       Entry("Behavior.HarpTreadmill.SensorData",
             <<"Encoder", "Torque", "TorqueLoadCurrent">>,
             "Treadmill", "Continuous signal from treadmill", FALSE),
       Entry("Behavior.HarpEnvironmentSensor.SensorData",
             <<"Pressure", "Temperature", "Humidity">>,
             "Environment", "Continuous signal from environment sensor", FALSE) >>

HED_TAG_MAPPING ==
    [k \in {"Lick", "UpdaterRewardDelayOffset", "RngSeed",
            "StopVelocityThreshold", "water", "Odor", "Block",
            "DepletionVariable", "ActivePatch", "PatchRewardAvailable",
            "PatchRewardAmount", "PatchRewardProbability",
            "VisualCorridorSpecs", "ActiveSite", "ArmOdor", "odor_line_load",
            "ChoiceFeedback", "sound", "WaitRewardOutcome", "GiveReward"} |->
       CASE k = "Lick" -> "Lick"
         [] k = "UpdaterRewardDelayOffset" -> "Reward/Offset"
         [] k = "RngSeed" -> "Random/Quantitative-value"
         [] k = "StopVelocityThreshold" -> "Run/Varying/Speed"
         [] k = "water" -> "Controller-agent/onset"
         [] k = "Odor" -> "Smell"
         [] k = "Block" -> "Virtual-world//Experiment-structure"
         [] k = "DepletionVariable" -> "Quantitative-Value"
         [] k = "ActivePatch" -> "Virtual-world/Experiment-structure"
         [] k = "PatchRewardAvailable" -> "Reward/Quantitative-Value"
         [] k = "PatchRewardAmount" -> "Reward/Quantitative-Value"
         [] k = "PatchRewardProbability" -> "Reward/Probablity"
         [] k = "VisualCorridorSpecs" -> "Controller_Agent"
         [] k = "ActiveSite" -> "Virtual-world/Experiment-structure"
         [] k = "ArmOdor" -> "Experiment-structure/Controller-agent"
         [] k = "odor_line_load" -> "Controller-agent"
         [] k = "ChoiceFeedback" -> "Feedback"
         [] k = "sound" -> "Sound/onset/Controller-agent"
         [] k = "WaitRewardOutcome" -> "Waiting-for"
         [] k = "GiveReward" -> "Reward/Quantitative-value"]

(***************************************************************************)
(* Stream keys the code names.                                             *)
(***************************************************************************)
RigKey == "Behavior.InputSchemas.Rig"

TreadmillKey == "Behavior.HarpTreadmill.SensorData"

AnalogKey == "Behavior.HarpBehavior.AnalogData"

SoftwareStreams ==
    {"Behavior.SoftwareEvents.Block", "Behavior.SoftwareEvents.Lick"}

\* "SoftwareEvents" in key (run_capsule.py line 168)
IsSoftwareEventKey(key) == key \in SoftwareStreams

\* nwb.acquisition.keys(), in the order the container lists them
AcquisitionKeys ==
    << "Behavior.HarpBehavior.PwmStart",
       "Behavior.HarpBehavior.PwmStop",
       "Behavior.HarpBehavior.PulseSupplyPort0",
       "Behavior.HarpOlfactometer.OdorValveState",
       "Behavior.HarpOlfactometer.EndValveState",
       "Behavior.HarpLickometer.LickState",
       "Behavior.HarpBehavior.DigitalInputState",
       "Behavior.HarpOlfactometer.Channel0ActualFlow",
       "Behavior.HarpOlfactometer.Channel1ActualFlow",
       "Behavior.HarpOlfactometer.Channel2ActualFlow",
       "Behavior.HarpOlfactometer.Channel3ActualFlow",
       "Behavior.HarpOlfactometer.Channel4ActualFlow",
       "Behavior.HarpSniffDetector.RawVoltage",
       "Behavior.HarpStepperDriver.AccumulatedSteps",
       "Behavior.HarpTreadmill.SensorData",
       "Behavior.HarpEnvironmentSensor.SensorData",
       "Behavior.HarpBehavior.AnalogData",
       "Behavior.InputSchemas.Rig",
       "Behavior.SoftwareEvents.Block",
       "Behavior.SoftwareEvents.Lick" >>

Range(s) == {s[k] : k \in DOMAIN s}

(***************************************************************************)
(* utils.get_event_timeseries_classifications, flattened in the order      *)
(* run_capsule.py walks it (devices in catalog order, registers in order). *)
(***************************************************************************)
Item(key, column, is_event, name, description) ==
    [key |-> key, column |-> column, is_event |-> is_event,
     name |-> name, description |-> description]

RECURSIVE RegisterItems(_, _)
RegisterItems(contents, r) ==
    IF r > Len(contents.registers) THEN <<>>
    ELSE <<Item(contents.device, contents.registers[r], contents.is_event,
                contents.name, contents.description)>>
         \o RegisterItems(contents, r + 1)

RECURSIVE ClassifyFrom(_, _, _)
ClassifyFrom(device_mapping, keys, d) ==
    IF d > Len(device_mapping) THEN <<>>
    ELSE (IF device_mapping[d].device \notin keys
          THEN <<>>  \* logger.warning; continue
          ELSE RegisterItems(device_mapping[d], 1))
         \o ClassifyFrom(device_mapping, keys, d + 1)

get_event_timeseries_classifications(device_mapping, keys) ==
    ClassifyFrom(device_mapping, keys, 1)

RECURSIVE FilterKeys(_, _, _)
FilterKeys(order, keys, k) ==
    IF k > Len(order) THEN <<>>
    ELSE (IF order[k] \in keys /\ IsSoftwareEventKey(order[k])
          THEN <<order[k]>> ELSE <<>>)
         \o FilterKeys(order, keys, k + 1)

\* software_event_keys (run_capsule.py lines 167-169)
SoftwareEventKeys(keys) == FilterKeys(AcquisitionKeys, keys, 1)

(***************************************************************************)
(* JSON encoding.  A Python value is [type, text]: text is what the value  *)
(* holds, written as Python prints it.                                     *)
(***************************************************************************)
PyValue(type, text) == [type |-> type, text |-> text]

\* the Python value of a table cell (column.tolist())
Cell(v) == PyValue(IF v \in {"True", "False"} THEN "bool" ELSE "int", v)

\* the texts json.loads accepts, among the texts of the sessions
JsonTexts == {"{\"a\": 1}", "3", "null", "true", "false"}

JsonSerializable(x) == x.type \in {"dict", "str", "NoneType", "int", "bool"}

\* json.dumps(x), for a serializable x
JsonDumps(x) ==
    CASE x.type = "dict" -> x.text
      [] x.type = "str" -> "\"" \o x.text \o "\""
      [] x.type = "NoneType" -> "null"
      [] x.type = "bool" -> (IF x.text = "True" THEN "true" ELSE "false")
      [] OTHER -> x.text

\* utils.normalize_to_json_string: [exc, text]
normalize_to_json_string(x) ==
    IF x.type = "dict" THEN [exc |-> "", text |-> JsonDumps(x)]
    ELSE IF x.type = "str"
         THEN (IF x.text \in JsonTexts
               THEN [exc |-> "", text |-> x.text]
               ELSE [exc |-> "", text |-> JsonDumps(x)])
    ELSE IF x.type = "NoneType" THEN [exc |-> "", text |-> "null"]
    ELSE IF JsonSerializable(x) THEN [exc |-> "", text |-> JsonDumps(x)]
    ELSE [exc |-> "TypeError", text |-> ""]

(***************************************************************************)
(* utils.get_processed_encoder.  The rig blob is [version, layouts]:       *)
(* layouts names the key layouts the blob holds,                           *)
(*   "output"      harp_treadmill.calibration.output.{wheel_diameter,...}  *)
(*   "calibration" harp_treadmill.calibration.{wheel_diameter,...}         *)
(*   "settings"    treadmill.settings.{wheel_diameter,...}                 *)
(*   "snake"       treadmill.{wheel_diameter,...}                          *)
(*   "camel"       treadmill.{wheelDiameter,...}                           *)
(***************************************************************************)
Layouts == {"output", "calibration", "settings", "snake", "camel"}

\* packaging.version.Version(s): the release tuple, <<>> for InvalidVersion
Version(s) ==
    CASE s = "0.2.0" -> <<0, 2, 0>>
      [] s = "0.3.0" -> <<0, 3, 0>>
      [] s = "0.3.9" -> <<0, 3, 9>>
      [] s = "0.4.0" -> <<0, 4, 0>>
      [] s = "9.9.9" -> <<9, 9, 9>>
      [] OTHER -> <<>>

VersionGE(a, b) ==
    \/ a[1] > b[1]
    \/ a[1] = b[1] /\ a[2] > b[2]
    \/ a[1] = b[1] /\ a[2] = b[2] /\ a[3] >= b[3]

\* Band with the first branch taken by version 0.4.0 alone
BandOfKnownVersions(current_version) ==
    IF current_version = <<0, 4, 0>> THEN "new"
    ELSE IF VersionGE(current_version, <<0, 3, 0>>)
            /\ ~VersionGE(current_version, <<0, 4, 0>>) THEN "mid"
    ELSE "legacy"

\* the branch of lines 277-337 a parsed version takes
Band(current_version) ==
    IF VersionGE(current_version, <<0, 4, 0>>) THEN "new"
    ELSE IF VersionGE(current_version, <<0, 3, 0>>)
            /\ ~VersionGE(current_version, <<0, 4, 0>>) THEN "mid"
    ELSE "legacy"

\* the stream the band reads the encoder from
SensorKey(band) == IF band = "legacy" THEN AnalogKey ELSE TreadmillKey

\* whether the key lookups of the band's branch all succeed
LayoutResolves(band, layouts) ==
    CASE band = "new" -> "output" \in layouts
      [] band = "mid" -> "calibration" \in layouts
      [] OTHER ->
           IF "settings" \in layouts THEN TRUE
           ELSE IF "snake" \in layouts THEN TRUE
           ELSE "camel" \in layouts

\* default num_taps of fir_filter
NumTaps == 61

\* scipy filtfilt pads 3 * max(len(a), len(b)) samples at each end and
\* raises ValueError unless the signal is longer than that
PadLen == 3 * NumTaps

EncoderResult(exc, key, band, n) ==
    [exc |-> exc, key |-> key, band |-> band, n |-> n]

\* get_processed_encoder(nwb)["filtered_velocity"]: the exception it ends
\* in (exc = "" when it returns) and the length n of the returned column
get_processed_encoder(acq) ==
    IF RigKey \notin DOMAIN acq THEN EncoderResult("KeyError", RigKey, "", 0)
    ELSE LET rig == acq[RigKey].description
             current_version == Version(rig.version)
         IN IF current_version = <<>>
            THEN EncoderResult("InvalidVersion", rig.version, "", 0)
            ELSE LET band == Band(current_version)
                 IN IF SensorKey(band) \notin DOMAIN acq
                    THEN EncoderResult("KeyError", SensorKey(band), band, 0)
                    ELSE IF ~LayoutResolves(band, rig.layouts)
                    THEN EncoderResult("KeyError", "calibration", band, 0)
                    ELSE IF acq[SensorKey(band)].n <= PadLen
                    THEN EncoderResult("ValueError", "padlen", band, 0)
                    ELSE EncoderResult("", "", band, acq[SensorKey(band)].n)

(***************************************************************************)
(* The event branch of run_capsule.py (lines 133-165).                     *)
(***************************************************************************)
\* data[column].dtype == bool
IsBoolColumn(rows, column) ==
    /\ rows # <<>>
    /\ \A k \in DOMAIN rows : rows[k][column] \in {"True", "False"}

\* Mask without the test of the column type
MaskKeepAll(rows, column) == [k \in DOMAIN rows |-> TRUE]

\* the mask of lines 137-140
Mask(rows, column) ==
    IF IsBoolColumn(rows, column)
    THEN [k \in DOMAIN rows |-> rows[k][column] = "True"]
    ELSE [k \in DOMAIN rows |-> TRUE]

RECURSIVE SelectRows(_, _, _)
SelectRows(rows, mask, k) ==
    IF k > Len(rows) THEN <<>>
    ELSE (IF mask[k] THEN <<rows[k]>> ELSE <<>>) \o SelectRows(rows, mask, k + 1)

\* data[mask].reset_index(drop=True)
FilteredRows(rows, column) == SelectRows(rows, Mask(rows, column), 1)

Column(rows, column) == [k \in DOMAIN rows |-> rows[k][column]]

RECURSIVE UniqueFrom(_, _, _)
UniqueFrom(s, k, seen) ==
    IF k > Len(s) THEN <<>>
    ELSE IF s[k] \in seen THEN UniqueFrom(s, k + 1, seen)
    ELSE <<s[k]>> \o UniqueFrom(s, k + 1, seen \cup {s[k]})

\* pd.Series(s).unique(): the distinct values in order of first appearance
Unique(s) == UniqueFrom(s, 1, {})

\* one pass of the body of the loops over unique values (lines 149-154 and
\* 180-186): append value and meaning, then look the tag up; exc = "KeyError"
\* when the tag table has no entry, after value and meaning were appended
AppendMeaning(m, value, meaning) ==
    IF value \in DOMAIN HED_TAG_MAPPING
    THEN [exc |-> "",
          m |-> [value |-> Append(m.value, value),
                 meaning |-> Append(m.meaning, meaning),
                 HED_Tag |-> Append(m.HED_Tag, HED_TAG_MAPPING[value])]]
    ELSE [exc |-> "KeyError",
          m |-> [value |-> Append(m.value, value),
                 meaning |-> Append(m.meaning, meaning),
                 HED_Tag |-> m.HED_Tag]]

\* lines 148-154: for value in unique_values: if name not in ...: append
RECURSIVE HardwareMeanings(_, _, _, _, _)
HardwareMeanings(m, unique_values, k, name, description) ==
    IF k > Len(unique_values) THEN [exc |-> "", m |-> m]
    ELSE IF name \in Range(m.value)
         THEN HardwareMeanings(m, unique_values, k + 1, name, description)
         ELSE LET r == AppendMeaning(m, name, description)
              IN IF r.exc # "" THEN r
                 ELSE HardwareMeanings(r.m, unique_values, k + 1, name, description)

\* lines 157-165: extend the three columns with the filtered rows
ExtendHardware(t, filtered_rows, column, name) ==
    [timestamp |-> t.timestamp \o Column(filtered_rows, "Time"),
     event_name |-> t.event_name \o [k \in DOMAIN filtered_rows |-> name],
     event_data |-> t.event_data
                    \o [k \in DOMAIN filtered_rows |->
                          JsonDumps(Cell(filtered_rows[k][column]))]]

(***************************************************************************)
(* The software-event loop of run_capsule.py (lines 170-186).              *)
(***************************************************************************)
\* name.split(".")[-1], a name being the sequence of its dotted parts
SplitLast(name) == name[Len(name)]

\* lines 179-186: for name in data["name"].unique(): append
RECURSIVE SoftwareMeanings(_, _, _, _)
SoftwareMeanings(m, names, k, description) ==
    IF k > Len(names) THEN [exc |-> "", m |-> m]
    ELSE LET r == AppendMeaning(m, SplitLast(names[k]), description)
         IN IF r.exc # "" THEN r
            ELSE SoftwareMeanings(r.m, names, k + 1, description)

(***************************************************************************)
(* The final sort (lines 196-204).                                         *)
(***************************************************************************)
\* InsertSorted placing x before the indices of equal key
RECURSIVE InsertSortedUnstable(_, _, _)
InsertSortedUnstable(sorted, x, key) ==
    IF sorted = <<>> THEN <<x>>
    ELSE IF key[sorted[Len(sorted)]] < key[x] THEN Append(sorted, x)
    ELSE Append(InsertSortedUnstable(SubSeq(sorted, 1, Len(sorted) - 1), x, key),
                sorted[Len(sorted)])

\* insert index x behind every index whose key is <= key[x]
RECURSIVE InsertSorted(_, _, _)
InsertSorted(sorted, x, key) ==
    IF sorted = <<>> THEN <<x>>
    ELSE IF key[sorted[Len(sorted)]] <= key[x] THEN Append(sorted, x)
    ELSE Append(InsertSorted(SubSeq(sorted, 1, Len(sorted) - 1), x, key),
                sorted[Len(sorted)])

RECURSIVE SortedUpTo(_, _)
SortedUpTo(n, key) ==
    IF n = 0 THEN <<>> ELSE InsertSorted(SortedUpTo(n - 1, key), n, key)

\* sorted(range(len(key)), key=lambda i: key[i]): Python's sort is stable
SortedIndices(key) == SortedUpTo(Len(key), key)

\* {k: [v[i] for i in sorted_indices] for k, v in event_table_dict.items()}
SortTable(t) ==
    LET sorted_indices == SortedIndices(t.timestamp)
    IN [timestamp |-> [k \in DOMAIN sorted_indices |-> t.timestamp[sorted_indices[k]]],
        event_name |-> [k \in DOMAIN sorted_indices |-> t.event_name[sorted_indices[k]]],
        event_data |-> [k \in DOMAIN sorted_indices |-> t.event_data[sorted_indices[k]]]]

(***************************************************************************)
(* The sessions that are enumerated.                                       *)
(***************************************************************************)
Stream(description, n, rows) ==
    [description |-> description, n |-> n, rows |-> rows]

CatalogEntry(device) ==
    CHOOSE e \in Range(VR_FORAGING_MAPPING) : e.device = device

CatalogDevices == {e.device : e \in Range(VR_FORAGING_MAPPING)}

EventDevices == {e.device : e \in {x \in Range(VR_FORAGING_MAPPING) : x.is_event}}

Times == 1..MaxTime

CellValues == {"True", "False", "2"}

\* a row of a harp table whose register columns all hold v
HarpRow(registers, t, v) ==
    [c \in {"Time"} \cup registers |-> IF c = "Time" THEN t ELSE v]

HarpRows(device) ==
    {HarpRow(Range(CatalogEntry(device).registers), t, v) :
        t \in Times, v \in CellValues}

SoftwareNames == {<<"Lick">>, <<"Block">>, <<"Task", "Block">>, <<"Mystery">>}

Payloads ==
    {PyValue("dict", "{\"a\": 1}"), PyValue("str", "{\"a\": 1}"),
     PyValue("str", "hello"), PyValue("NoneType", "None"),
     PyValue("int", "3"), PyValue("bytes", "b'x'")}

SoftwareRow(t, name, data) == [timestamp |-> t, name |-> name, data |-> data]

SoftwareRows ==
    {SoftwareRow(t, name, PyValue("dict", "{\"a\": 1}")) :
        t \in Times, name \in SoftwareNames}

RowsOf(key) == IF key \in SoftwareStreams THEN SoftwareRows ELSE HarpRows(key)

TableOf(key, rows) ==
    Stream(IF key \in SoftwareStreams THEN "Software event" ELSE "", Len(rows), rows)

\* the sample counts of the sampled streams: around the filter's pad length
SampleCounts == {PadLen + k : k \in 0..MaxExtra}

VersionTexts == {"0.2.0", "0.3.0", "0.3.9", "0.4.0", "9.9.9", "latest"}

Rig(version, layouts) == [version |-> version, layouts |-> layouts]

RigStream(rig) == Stream(rig, 0, <<>>)

\* the table a device has in the sessions that vary only which streams exist
PlainStream(device) ==
    IF device \in EventDevices
    THEN TableOf(device, <<HarpRow(Range(CatalogEntry(device).registers), 1, "True")>>)
    ELSE Stream("", PadLen + 1, <<>>)

\* no helper of utils.py is being called on its own
NoCall == [fn |-> "", args |-> <<>>, returned |-> FALSE, result |-> <<>>]

\* the state of __main__ before its first statement
RunNotStarted ==
    /\ source_io = "unopened"
    /\ io = "unopened"
    /\ pc = "start"
    /\ error = [exc |-> "", at |-> "", key |-> ""]
    /\ items = <<>>
    /\ i = 1
    /\ software_event_keys = <<>>
    /\ j = 1
    /\ event_table_dict = [timestamp |-> <<>>, event_name |-> <<>>, event_data |-> <<>>]
    /\ meanings_table_dict = [value |-> <<>>, meaning |-> <<>>, HED_Tag |-> <<>>]
    /\ processing_module = <<>>
    /\ data_process = <<>>
    /\ written = {}

Fresh == call = NoCall /\ RunNotStarted

\* no session directory under the input directory
InitNoInput ==
    /\ raw_nwb_path = <<>>
    /\ acquisition = <<>>
    /\ Fresh

\* one or two event sources (event-tagged devices, software-event streams)
\* with every table of at most MaxRows rows in all
InitTables ==
    /\ raw_nwb_path = <<"session">>
    /\ \E a \in EventDevices \cup SoftwareStreams :
       \E b \in EventDevices \cup SoftwareStreams :
       \E ka \in 0..MaxRows :
       \E kb \in 0..(MaxRows - ka) :
       \E ta \in [1..ka -> RowsOf(a)] :
       \E tb \in [1..kb -> RowsOf(b)] :
          acquisition = (a :> TableOf(a, ta)) @@ (b :> TableOf(b, tb))
    /\ Fresh

\* the treadmill stream with every rig blob, with and without the analog
\* stream of the legacy rigs
InitEncoder ==
    /\ raw_nwb_path = <<"session">>
    /\ \E n \in SampleCounts :
       \E analog \in {{}} \cup {{m} : m \in SampleCounts} :
       \E rigs \in {{}} \cup {{Rig(v, l)} : v \in VersionTexts, l \in SUBSET Layouts} :
          acquisition =
             [k \in {TreadmillKey}
                    \cup (IF analog = {} THEN {} ELSE {AnalogKey})
                    \cup (IF rigs = {} THEN {} ELSE {RigKey}) |->
                CASE k = TreadmillKey -> Stream("", n, <<>>)
                  [] k = AnalogKey -> Stream("", CHOOSE m \in analog : TRUE, <<>>)
                  [] OTHER -> RigStream(CHOOSE r \in rigs : TRUE)]
    /\ Fresh

\* which cataloged streams exist: at most two of them, or all but at most
\* two; with a rig blob that resolves, one that does not, or none; and at
\* most one software-event row, of every payload type
InitRun ==
    /\ raw_nwb_path = <<"session">>
    /\ \E a \in CatalogDevices :
       \E b \in CatalogDevices :
       \E present \in {{}, {a, b}, CatalogDevices \ {a, b}} :
       \E rigs \in IF TreadmillKey \in present
                   THEN {{}, {Rig("0.4.0", {"output"})}, {Rig("9.9.9", {})},
                         {Rig("latest", {"output"})}}
                   ELSE {{}} :
       \E soft \in {{}} \cup {{p} : p \in Payloads} :
          acquisition =
             [k \in present
                    \cup (IF rigs = {} THEN {} ELSE {RigKey})
                    \cup (IF soft = {} THEN {} ELSE {"Behavior.SoftwareEvents.Block"}) |->
                CASE k = RigKey -> RigStream(CHOOSE r \in rigs : TRUE)
                  [] k = "Behavior.SoftwareEvents.Block" ->
                       Stream("Software event", 1,
                              <<SoftwareRow(1, <<"Block">>, CHOOSE p \in soft : TRUE)>>)
                  [] OTHER -> PlainStream(k)]
    /\ Fresh

Init == InitNoInput \/ InitTables \/ InitEncoder \/ InitRun

(***************************************************************************)
(* run_capsule.py, __main__.                                               *)
(***************************************************************************)
\* Raise with the exception logged and the run carried on to the export
RaiseAndExport(exc, at, key) ==
    /\ pc' = "export"
    /\ error' = [exc |-> exc, at |-> at, key |-> key]

\* an exception nothing catches ends the run
Raise(exc, at, key) ==
    /\ pc' = "aborted"
    /\ error' = [exc |-> exc, at |-> at, key |-> key]

\* lines 39-58: find the session directory, open and read the container
Open ==
    /\ pc = "start"
    /\ IF raw_nwb_path = <<>>
       THEN /\ Raise("FileNotFoundError", "discover", "")
            /\ UNCHANGED source_io
       ELSE /\ source_io' = "open"
            /\ pc' = "classify"
            /\ UNCHANGED error
    /\ UNCHANGED <<call, raw_nwb_path, acquisition, io, items, i,
                   software_event_keys, j, event_table_dict,
                   meanings_table_dict, processing_module, data_process,
                   written>>

\* lines 60-78: classify the cataloged registers, start the empty tables
Classify ==
    /\ pc = "classify"
    /\ items' = get_event_timeseries_classifications(VR_FORAGING_MAPPING,
                                                     DOMAIN acquisition)
    /\ i' = 1
    /\ event_table_dict' = [timestamp |-> <<>>, event_name |-> <<>>, event_data |-> <<>>]
    /\ meanings_table_dict' = [value |-> <<>>, meaning |-> <<>>, HED_Tag |-> <<>>]
    /\ processing_module' = <<>>
    /\ data_process' = <<>>
    /\ pc' = "items"
    /\ UNCHANGED <<call, raw_nwb_path, acquisition, source_io, io, error,
                   software_event_keys, j, written>>

\* IsProcessedTimeseries without the test of line 89
IsProcessedAlways(column) == TRUE

\* lines 86-90: of the registers classified as timeseries, only the encoder
\* is processed
IsProcessedTimeseries(column) == column = "Encoder"

TimeSeries(name, data, timestamps) ==
    [name |-> name, data |-> data, timestamps |-> timestamps]

\* what pynwb's TimeSeries does with the lengths it is given: a mismatch is
\* a warning or a ValueError, depending on the pynwb release
TimeSeriesOutcomes(data, timestamps) ==
    IF data = timestamps THEN {"ok"} ELSE {"warn", "raise"}

\* lines 79-165: one pass of the loop over the classified registers
ProcessItem ==
    /\ pc = "items"
    /\ i <= Len(items)
    /\ i' = i + 1
    /\ LET item == items[i]
       IN IF ~item.is_event
          THEN IF ~IsProcessedTimeseries(item.column)
               THEN UNCHANGED <<pc, error, event_table_dict,
                                meanings_table_dict, processing_module,
                                data_process>>
               ELSE LET timestamps == acquisition[item.key].n
                        encoder == get_processed_encoder(acquisition)
                    IN IF encoder.exc # ""
                       THEN /\ Raise(encoder.exc, "encoder", encoder.key)
                            /\ UNCHANGED <<event_table_dict,
                                           meanings_table_dict,
                                           processing_module, data_process>>
                       ELSE /\ data_process' = <<[name |-> "Other"]>>
                            /\ \E outcome \in TimeSeriesOutcomes(encoder.n, timestamps) :
                                  IF outcome = "raise"
                                  THEN /\ Raise("ValueError", "timeseries", item.column)
                                       /\ UNCHANGED processing_module
                                  ELSE /\ processing_module' =
                                            Append(processing_module,
                                                   TimeSeries(item.column, encoder.n,
                                                              timestamps))
                                       /\ UNCHANGED <<pc, error>>
                            /\ UNCHANGED <<event_table_dict, meanings_table_dict>>
          ELSE LET data == acquisition[item.key].rows
                   filtered_rows == FilteredRows(data, item.column)
                   filtered_column_values == Column(filtered_rows, item.column)
                   unique_values == Unique(filtered_column_values)
                   r == HardwareMeanings(meanings_table_dict, unique_values, 1,
                                         item.name, item.description)
               IN /\ meanings_table_dict' = r.m
                  /\ IF r.exc # ""
                     THEN /\ Raise(r.exc, "event", item.name)
                          /\ UNCHANGED event_table_dict
                     ELSE /\ event_table_dict' =
                               ExtendHardware(event_table_dict, filtered_rows,
                                              item.column, item.name)
                          /\ UNCHANGED <<pc, error>>
                  /\ UNCHANGED <<processing_module, data_process>>
    /\ UNCHANGED <<call, raw_nwb_path, acquisition, source_io, io, items,
                   software_event_keys, j, written>>

\* lines 167-169: list the software-event streams
ListSoftwareEvents ==
    /\ pc = "items"
    /\ i > Len(items)
    /\ software_event_keys' = SoftwareEventKeys(DOMAIN acquisition)
    /\ j' = 1
    /\ pc' = "software"
    /\ UNCHANGED <<call, raw_nwb_path, acquisition, source_io, io, error, items, i,
                   event_table_dict, meanings_table_dict, processing_module,
                   data_process, written>>

\* the first exception of normalizing a column of payloads, "" if none
RECURSIVE NormalizeExc(_, _)
NormalizeExc(rows, k) ==
    IF k > Len(rows) THEN ""
    ELSE IF normalize_to_json_string(rows[k].data).exc # ""
         THEN normalize_to_json_string(rows[k].data).exc
         ELSE NormalizeExc(rows, k + 1)

\* lines 170-186: one pass of the loop over the software-event streams
SoftwareEvent ==
    /\ pc = "software"
    /\ j <= Len(software_event_keys)
    /\ j' = j + 1
    /\ LET software_event == software_event_keys[j]
           data == acquisition[software_event].rows
           extended ==
              [timestamp |-> event_table_dict.timestamp
                             \o [k \in DOMAIN data |-> data[k].timestamp],
               event_name |-> event_table_dict.event_name
                              \o [k \in DOMAIN data |-> SplitLast(data[k].name)],
               event_data |-> event_table_dict.event_data]
           r == SoftwareMeanings(meanings_table_dict,
                                 Unique([k \in DOMAIN data |-> data[k].name]), 1,
                                 acquisition[software_event].description)
       IN IF NormalizeExc(data, 1) # ""
          THEN /\ event_table_dict' = extended
               /\ Raise(NormalizeExc(data, 1), "software", software_event)
               /\ UNCHANGED meanings_table_dict
          ELSE /\ event_table_dict' =
                    [extended EXCEPT !.event_data =
                        @ \o [k \in DOMAIN data |->
                                normalize_to_json_string(data[k].data).text]]
               /\ meanings_table_dict' = r.m
               /\ IF r.exc # ""
                  THEN Raise(r.exc, "software", software_event)
                  ELSE UNCHANGED <<pc, error>>
    /\ UNCHANGED <<call, raw_nwb_path, acquisition, source_io, io, items, i,
                   software_event_keys, processing_module, data_process,
                   written>>

\* lines 188-213: build the meanings table, sort the event table by
\* timestamp, attach both and the processing module
BuildTables ==
    /\ pc = "software"
    /\ j > Len(software_event_keys)
    /\ event_table_dict' = SortTable(event_table_dict)
    /\ pc' = "export"
    /\ UNCHANGED <<call, raw_nwb_path, acquisition, source_io, io, error, items, i,
                   software_event_keys, j, meanings_table_dict,
                   processing_module, data_process, written>>

\* lines 215-223: with NWBZarrIO(nwb_output_path, "w") as io: io.export(...)
Export ==
    /\ pc = "export"
    /\ io' = "closed"
    /\ written' = written \cup {"processed.zarr"}
    /\ pc' = "sidecar"
    /\ UNCHANGED <<call, raw_nwb_path, acquisition, source_io, error, items, i,
                   software_event_keys, j, event_table_dict,
                   meanings_table_dict, processing_module, data_process>>

\* lines 225-226: open data_process.json for writing, then dump the record;
\* without a record the dump raises on None and leaves the file empty
Sidecar ==
    /\ pc = "sidecar"
    /\ IF data_process = <<>>
       THEN /\ written' = written \cup {"data_process.json (empty)"}
            /\ Raise("AttributeError", "sidecar", "data_process")
       ELSE /\ written' = written \cup {"data_process.json"}
            /\ pc' = "done"
            /\ UNCHANGED error
    /\ UNCHANGED <<call, raw_nwb_path, acquisition, source_io, io, items, i,
                   software_event_keys, j, event_table_dict,
                   meanings_table_dict, processing_module, data_process>>

Next ==
    \/ Open
    \/ Classify
    \/ ProcessItem
    \/ ListSoftwareEvents
    \/ SoftwareEvent
    \/ BuildTables
    \/ Export
    \/ Sidecar

Spec == Init /\ [][Next]_vars


(***************************************************************************)
(* utils.is_event, called on its own.  Timestamps and the threshold are    *)
(* whole numbers of one time unit; the mean of the differences is the      *)
(* fraction [num, den].                                                    *)
(***************************************************************************)
\* what a Python call returns: a tuple of items, or one plain bool
PyTuple(values) == [shape |-> "tuple", items |-> values]

PyBool(b) == [shape |-> "bool", items |-> <<b>>]

\* np.diff(times)
Diff(times) == [k \in 1..(Len(times) - 1) |-> times[k + 1] - times[k]]

RECURSIVE SumFrom(_, _)
SumFrom(s, k) == IF k > Len(s) THEN 0 ELSE s[k] + SumFrom(s, k + 1)

\* np.mean(deltas), deltas not empty
Mean(deltas) == [num |-> SumFrom(deltas, 1), den |-> Len(deltas)]

\* mean_delta > threshold
MeanExceeds(mean_delta, threshold) == mean_delta.num > threshold * mean_delta.den

\* utils.is_event(times, threshold)
is_event(times, threshold) ==
    IF Len(times) < 3 THEN PyTuple(<<TRUE, 0>>)
    ELSE LET deltas == Diff(times)
             mean_delta == Mean(deltas)
         IN PyBool(MeanExceeds(mean_delta, threshold))

\* the timestamp sequences and thresholds is_event is called with
TimestampSeqs == UNION {[1..n -> 0..MaxTime] : n \in 0..MaxLen}

Thresholds == {0, 1, 2}

InitIsEvent ==
    /\ raw_nwb_path = <<>>
    /\ acquisition = <<>>
    /\ RunNotStarted
    /\ \E times \in TimestampSeqs :
       \E threshold \in Thresholds :
          call = [fn |-> "is_event",
                  args |-> [times |-> times, threshold |-> threshold],
                  returned |-> FALSE, result |-> <<>>]

\* the call returns
IsEventCall ==
    /\ call.fn = "is_event"
    /\ ~call.returned
    /\ call' = [call EXCEPT !.returned = TRUE,
                            !.result = is_event(call.args.times, call.args.threshold)]
    /\ UNCHANGED <<raw_nwb_path, acquisition, source_io, io, pc, error,
                   items, i, software_event_keys, j, event_table_dict,
                   meanings_table_dict, processing_module, data_process,
                   written>>

NextIsEvent == IsEventCall

SpecIsEvent == InitIsEvent /\ [][NextIsEvent]_vars


(***************************************************************************)
(* utils.get_processed_encoder up to the velocity column (lines 273-349),  *)
(* called on its own with the rig blob and the Encoder column of the       *)
(* band's sensor stream.  Here the rig blob also holds, for every layout   *)
(* it has, the values under the layout's keys.  Ticks, wheel diameters     *)
(* and pulse counts are whole numbers; a sample of a column is             *)
(* [nan, num, den], the fraction num/den, the converter and the velocity   *)
(* in multiples of pi.                                                     *)
(***************************************************************************)
RigWith(version, calibration) ==
    [version |-> version, layouts |-> DOMAIN calibration,
     calibration |-> calibration]

Sample(num, den) == [nan |-> FALSE, num |-> num, den |-> den]

NaN == [nan |-> TRUE, num |-> 0, den |-> 1]

\* lines 317-331: the keys the legacy branch reads, in the order it tries
LegacyLayout(layouts) ==
    IF "settings" \in layouts THEN "settings"
    ELSE IF "snake" \in layouts THEN "snake"
    ELSE "camel"

\* the layout whose keys the band's branch reads
BandLayout(band, layouts) ==
    CASE band = "new" -> "output"
      [] band = "mid" -> "calibration"
      [] OTHER -> LegacyLayout(layouts)

\* Dispatch with the rate of the legacy branch in every band
DispatchLegacyRate(band) == 1000

\* dispatch (lines 297, 313, 337)
Dispatch(band) == IF band = "legacy" THEN 1000 ELSE 250

\* sensor_data["Encoder"]: sensor_data.Encoder.diff() in the two newer
\* bands (lines 296, 312), the raw column in the legacy band
EncoderColumn(band, ticks) ==
    IF band = "legacy" THEN [k \in DOMAIN ticks |-> Sample(ticks[k], 1)]
    ELSE [k \in DOMAIN ticks |->
            IF k = 1 THEN NaN ELSE Sample(ticks[k] - ticks[k - 1], 1)]

\* converter (lines 339-344), in multiples of pi
Converter(wheel_size, pulses_per_revolution, invert_direction) ==
    Sample(wheel_size * (IF invert_direction THEN -1 ELSE 1), pulses_per_revolution)

\* sensor_data["velocity"] (lines 346-348)
VelocityColumn(encoder, converter, dispatch) ==
    [k \in DOMAIN encoder |->
       IF encoder[k].nan THEN NaN
       ELSE Sample(encoder[k].num * converter.num * dispatch,
                   encoder[k].den * converter.den)]

VelocityResult(exc, band, layout, velocity) ==
    [exc |-> exc, band |-> band, layout |-> layout, velocity |-> velocity]

\* the velocity column get_processed_encoder computes from the rig blob and
\* the ticks of the sensor stream, before it is filtered
EncoderVelocity(rig, ticks) ==
    LET current_version == Version(rig.version)
    IN IF current_version = <<>>
       THEN VelocityResult("InvalidVersion", "", "", <<>>)
       ELSE LET band == Band(current_version)
                layout == BandLayout(band, rig.layouts)
            IN IF ~LayoutResolves(band, rig.layouts)
               THEN VelocityResult("KeyError", band, "", <<>>)
               ELSE LET wheel_size == rig.calibration[layout].wheel_diameter
                        pulses_per_revolution ==
                           rig.calibration[layout].pulses_per_revolution
                        invert_direction == rig.calibration[layout].invert_direction
                        converter == Converter(wheel_size, pulses_per_revolution,
                                               invert_direction)
                    IN VelocityResult("", band, layout,
                                      VelocityColumn(EncoderColumn(band, ticks),
                                                     converter, Dispatch(band)))

\* the calls that are enumerated: blobs with no, one or two layouts, each
\* layout with a wheel diameter of its own and its own direction flag
TickSeqs == UNION {[1..n -> 0..MaxTime] : n \in 0..MaxLen}

LayoutOrder == <<"output", "calibration", "settings", "snake", "camel">>

LayoutIndex(layout) == CHOOSE k \in DOMAIN LayoutOrder : LayoutOrder[k] = layout

WheelDiameters == {1, 2}

PulseCounts == {1, 3}

InitVelocity ==
    /\ raw_nwb_path = <<>>
    /\ acquisition = <<>>
    /\ RunNotStarted
    /\ \E version \in VersionTexts :
       \E a \in Layouts :
       \E b \in Layouts :
       \E layouts \in {{}, {a, b}} :
       \E invert \in [layouts -> BOOLEAN] :
       \E wheel \in WheelDiameters :
       \E pulses \in PulseCounts :
       \E ticks \in TickSeqs :
          call = [fn |-> "get_processed_encoder",
                  args |-> [rig |-> RigWith(version,
                                      [l \in layouts |->
                                         [wheel_diameter |-> wheel + LayoutIndex(l),
                                          pulses_per_revolution |-> pulses,
                                          invert_direction |-> invert[l]]]),
                            ticks |-> ticks],
                  returned |-> FALSE, result |-> <<>>]

\* the call reaches line 349, or raises
VelocityCall ==
    /\ call.fn = "get_processed_encoder"
    /\ ~call.returned
    /\ call' = [call EXCEPT !.returned = TRUE,
                            !.result = EncoderVelocity(call.args.rig, call.args.ticks)]
    /\ UNCHANGED <<raw_nwb_path, acquisition, source_io, io, pc, error,
                   items, i, software_event_keys, j, event_table_dict,
                   meanings_table_dict, processing_module, data_process,
                   written>>

NextVelocity == VelocityCall

SpecVelocity == InitVelocity /\ [][NextVelocity]_vars

(***************************************************************************)
(* Properties.                                                             *)
(***************************************************************************)
\* the tables are built: the run is past line 213
PostBuild ==
    \/ pc \in {"export", "sidecar", "done"}
    \/ pc = "aborted" /\ error.at = "sidecar"

LegacyLayouts == {"settings", "snake", "camel"}

\* the row k of an event table, as a triple
TableRow(t, k) == <<t.timestamp[k], t.event_name[k], t.event_data[k]>>

TableRows(t) == [k \in DOMAIN t.timestamp |-> TableRow(t, k)]

\* C1: after the build step the meanings table holds no two rows with the
\* same value, whatever the catalog registers and the software-event
\* streams of the session are.
C1_MeaningsValuesUnique ==
    PostBuild =>
       \A a \in DOMAIN meanings_table_dict.value :
       \A b \in DOMAIN meanings_table_dict.value :
          a # b => meanings_table_dict.value[a] # meanings_table_dict.value[b]

RECURSIVE RowsWithTimes(_, _)
\* the rows of s whose timestamp is in ts, smallest timestamp first, the
\* rows of one timestamp in the order they have in s
RowsWithTimes(s, ts) ==
    IF ts = {} THEN <<>>
    ELSE LET t == CHOOSE x \in ts : \A y \in ts : x <= y
         IN SelectSeq(s, LAMBDA row : row[1] = t) \o RowsWithTimes(s, ts \ {t})

\* C2: the final event table is the stable sort by timestamp of the rows
\* collected: timestamps are non-decreasing, every row keeps its own
\* (timestamp, event_name, event_data), rows of equal timestamp keep their
\* collection order, and sorting the sorted table again changes nothing.
C2_StableSortByTimestamp ==
    [][(pc = "software" /\ pc' = "export") =>
         LET collected == TableRows(event_table_dict)
             final == event_table_dict'
         IN /\ Len(final.event_name) = Len(final.timestamp)
            /\ Len(final.event_data) = Len(final.timestamp)
            /\ TableRows(final) = RowsWithTimes(collected, Range(event_table_dict.timestamp))
            /\ \A k \in 1..(Len(final.timestamp) - 1) :
                  final.timestamp[k] <= final.timestamp[k + 1]
            /\ SortTable(final) = final]_vars

\* C2 witness: a software-event stream listed its two rows latest first,
\* and the built table holds both.
C2_Witness ==
    /\ pc = "export"
    /\ Len(event_table_dict.timestamp) = 2
    /\ \E key \in DOMAIN acquisition :
          /\ key \in SoftwareStreams
          /\ Len(acquisition[key].rows) = 2
          /\ acquisition[key].rows[1].timestamp > acquisition[key].rows[2].timestamp

\* the rows of a register that pass the selection mask: all of them, or
\* the true ones when the column is boolean
PassingRows(rows, column) ==
    {k \in DOMAIN rows :
        (rows # <<>> /\ \A m \in DOMAIN rows : rows[m][column] \in {"True", "False"})
           => rows[k][column] = "True"}

RECURSIVE SumOver(_, _)
SumOver(counts, k) ==
    IF k > Len(counts) THEN 0 ELSE counts[k] + SumOver(counts, k + 1)

\* rows expected of one catalog entry: over its registers, when present
ExpectedOfEntry(e) ==
    IF e.is_event /\ e.device \in DOMAIN acquisition
    THEN SumOver([r \in DOMAIN e.registers |->
                    Cardinality(PassingRows(acquisition[e.device].rows,
                                            e.registers[r]))], 1)
    ELSE 0

ExpectedRows ==
    SumOver([d \in DOMAIN VR_FORAGING_MAPPING |->
               ExpectedOfEntry(VR_FORAGING_MAPPING[d])], 1)
    + SumOver([k \in DOMAIN AcquisitionKeys |->
                 IF AcquisitionKeys[k] \in DOMAIN acquisition
                    /\ AcquisitionKeys[k] \in SoftwareStreams
                 THEN Len(acquisition[AcquisitionKeys[k]].rows) ELSE 0], 1)

OverrideNames == {"Lick", "Odor"}

\* C4: every row of a boolean event register named in the override set
\* (Lick, Odor) is in the event table, the rows whose value is false too.
C4_OverrideKeepsFalseRows ==
    PostBuild =>
       \A e \in Range(VR_FORAGING_MAPPING) :
          (e.is_event /\ e.name \in OverrideNames /\ e.device \in DOMAIN acquisition) =>
             \A r \in DOMAIN e.registers :
             \A k \in DOMAIN acquisition[e.device].rows :
                LET row == acquisition[e.device].rows[k]
                IN row[e.registers[r]] \in {"True", "False"} =>
                      \E m \in DOMAIN event_table_dict.timestamp :
                         TableRow(event_table_dict, m)
                            = <<row["Time"], e.name,
                                IF row[e.registers[r]] = "True" THEN "true" ELSE "false">>

\* the loop over the classified registers is past the encoder register
EncoderProcessed == \E k \in 1..(i - 1) : k <= Len(items) /\ items[k].column = "Encoder"

RigOf(acq) == acq[RigKey].description

\* C5 as stated: with schema version 9.9.9 and no legacy key layout in the
\* blob, get_processed_encoder ends in the calibration-resolution failure
\* and no velocity series is returned.
C5_UnknownVersionFails ==
    (/\ RigKey \in DOMAIN acquisition
     /\ RigOf(acquisition).version = "9.9.9"
     /\ RigOf(acquisition).layouts \cap LegacyLayouts = {}
     /\ EncoderProcessed) =>
        /\ pc = "aborted"
        /\ error.at = "encoder"
        /\ processing_module = <<>>

\* C5 amended: schema version 9.9.9 takes the newest band (>= 0.4.0); the
\* run ends in the calibration-resolution failure exactly when the blob
\* lacks the newest layout's keys, whatever legacy keys it has, and a
\* velocity series is attached when it has them.
C5_UnknownVersionTakesNewestBand ==
    (/\ RigKey \in DOMAIN acquisition
     /\ RigOf(acquisition).version = "9.9.9"
     /\ EncoderProcessed) =>
        IF "output" \in RigOf(acquisition).layouts
        THEN IF acquisition[TreadmillKey].n > PadLen
             THEN /\ ~(pc = "aborted" /\ error.at = "encoder")
                  /\ Len(processing_module) = 1
                  /\ processing_module[1].data = acquisition[TreadmillKey].n
             ELSE pc = "aborted" /\ error.exc = "ValueError"
        ELSE /\ pc = "aborted"
             /\ error = [exc |-> "KeyError", at |-> "encoder", key |-> "calibration"]
             /\ processing_module = <<>>

\* C5 witness: version 9.9.9, only the newest layout's keys, and the run
\* completed with the velocity series attached.
C5_Witness ==
    /\ pc = "done"
    /\ RigKey \in DOMAIN acquisition
    /\ RigOf(acquisition).version = "9.9.9"
    /\ RigOf(acquisition).layouts = {"output"}
    /\ Len(processing_module) = 1

\* C6: the filtered velocity series attached has as many values as the
\* timestamps it is paired with, the encoder stream's sample count, in
\* every calibration-version band.
C6_VelocityLengthMatchesTimestamps ==
    \A k \in DOMAIN processing_module :
       /\ processing_module[k].data = processing_module[k].timestamps
       /\ processing_module[k].timestamps = acquisition[TreadmillKey].n

\* C7: a hard failure is raised only while the input is discovered or a
\* stream that is present is processed; no run fails because cataloged
\* streams are absent.
C7_AbsentStreamsNeverFatal ==
    pc = "aborted" =>
       error.at \in {"discover", "encoder", "timeseries", "event", "software"}

\* C8: when the run has ended, normally or by an error after the input was
\* opened, neither container handle is still open.
C8_HandlesClosedAtExit ==
    pc \in {"done", "aborted"} => source_io # "open" /\ io # "open"

\* C9: after a fatal error in the encoder processing or in the event and
\* meanings build nothing has been written, and whatever is written is
\* written after both loops have run to their end.
C9_NoOutputAfterFatalError ==
    /\ (error.at \in {"encoder", "timeseries", "event", "software"}) => written = {}
    /\ written # {} =>
          /\ i > Len(items)
          /\ j > Len(software_event_keys)
          /\ pc \in {"sidecar", "done", "aborted"}

\* C9 witness: the calibration did not resolve, the run is over and nothing
\* was written.
C9_Witness ==
    /\ pc = "aborted"
    /\ error = [exc |-> "KeyError", at |-> "encoder", key |-> "calibration"]
    /\ written = {}

\* a Continuous register of the session other than the encoder and the
\* breathing signal
PlainContinuous(item) ==
    ~item.is_event /\ item.column # "Encoder" /\ item.name # "Breathing"

\* C10 as stated: every Continuous register present, the encoder and the
\* breathing signal aside, has a series of its own in the processing group.
C10_EveryContinuousRegisterEmitted ==
    pc \in {"export", "sidecar", "done"} =>
       \A k \in DOMAIN items :
          PlainContinuous(items[k]) =>
             \E m \in DOMAIN processing_module :
                processing_module[m].name = items[k].column

\* C10 amended: the only series the build emits into the processing group
\* is the encoder's; every other Continuous register present is skipped
\* and has no series, and the encoder's is there once its loop pass is done.
C10_OnlyEncoderSeriesEmitted ==
    /\ \A m \in DOMAIN processing_module : processing_module[m].name = "Encoder"
    /\ Len(processing_module) <= 1
    /\ (pc \in {"export", "sidecar", "done"} /\ EncoderProcessed) =>
          Len(processing_module) = 1

\* C10 witness: the run completed on a session with the treadmill and
\* another Continuous stream; the processing group holds one series.
C10_Witness ==
    /\ pc = "done"
    /\ \E k \in DOMAIN items : PlainContinuous(items[k]) /\ items[k].key # TreadmillKey
    /\ Len(processing_module) = 1

\* C11: is_event returns the pair (kind, meanInterval) of the reference
\* rule, in the same shape in both branches: (Event, 0) for fewer than 3
\* timestamps, else Event when the mean of the consecutive differences is
\* above the threshold and Continuous when it is not, with that mean.
C11_ClassifyReturnsKindAndMean ==
    (call.fn = "is_event" /\ call.returned) =>
       LET times == call.args.times
           threshold == call.args.threshold
           gaps == [k \in 1..(Len(times) - 1) |-> times[k + 1] - times[k]]
       IN /\ call.result.shape = "tuple"
          /\ Len(call.result.items) = 2
          /\ IF Len(times) < 3
             THEN call.result.items = <<TRUE, 0>>
             ELSE /\ call.result.items[1]
                        = (SumOver(gaps, 1) > threshold * Len(gaps))
                  /\ call.result.items[2].num * Len(gaps)
                        = SumOver(gaps, 1) * call.result.items[2].den

\* the band a release tuple belongs to by version order
ExpectedBand(release) ==
    IF release[1] > 0 \/ (release[1] = 0 /\ release[2] >= 4) THEN "new"
    ELSE IF release[1] = 0 /\ release[2] = 3 THEN "mid"
    ELSE "legacy"

\* C12: for every parseable version exactly one band is selected by version
\* order (newest from 0.4.0, middle from 0.3.0 up to 0.4.0, legacy below,
\* snake-case keys before camel-case ones); the two newer bands difference
\* the ticks and use cadence 250, the legacy band uses the raw ticks and
\* cadence 1000; velocity = ticks * converter * cadence in every band, the
\* converter wheelDiameter * pi / pulsesPerRevolution negated exactly when
\* invertDirection is set.
C12_BandAndVelocity ==
    (/\ call.fn = "get_processed_encoder"
     /\ call.returned
     /\ Version(call.args.rig.version) # <<>>) =>
       LET rig == call.args.rig
           ticks == call.args.ticks
           result == call.result
           band == ExpectedBand(Version(rig.version))
           cadence == IF band = "legacy" THEN 1000 ELSE 250
       IN /\ result.band = band
          /\ result.exc = "" =>
                LET cal == rig.calibration[result.layout]
                    sign == IF cal.invert_direction THEN -1 ELSE 1
                IN /\ band = "new" => result.layout = "output"
                   /\ band = "mid" => result.layout = "calibration"
                   /\ band = "legacy" =>
                         /\ result.layout \in LegacyLayouts
                         /\ ("settings" \notin rig.layouts /\ "snake" \in rig.layouts)
                               => result.layout = "snake"
                         /\ result.layout = "camel" => "snake" \notin rig.layouts
                   /\ Len(result.velocity) = Len(ticks)
                   /\ \A k \in DOMAIN ticks :
                         IF band # "legacy" /\ k = 1
                         THEN result.velocity[k].nan
                         ELSE LET used == IF band = "legacy" THEN ticks[k]
                                          ELSE ticks[k] - ticks[k - 1]
                              IN /\ ~result.velocity[k].nan
                                 /\ result.velocity[k].num * cal.pulses_per_revolution
                                       = used * cal.wheel_diameter * sign * cadence
                                            * result.velocity[k].den

\* C12 witness: a version of the middle band, a blob that also has legacy
\* keys, the direction inverted, and a velocity that is not zero.
C12_Witness ==
    /\ call.fn = "get_processed_encoder"
    /\ call.returned
    /\ call.args.rig.version = "0.3.9"
    /\ call.args.rig.layouts = {"calibration", "snake"}
    /\ call.result.exc = ""
    /\ call.args.rig.calibration["calibration"].invert_direction
    /\ Len(call.args.ticks) = 3
    /\ call.result.velocity[3].num < 0

====
